---- MODULE Spec2Model ----
(***************************************************************************)
(* The PCSA sketch of src/src/pcsa.rs (Probabilistic Counting with         *)
(* Stochastic Averaging) as a state machine.                               *)
(*                                                                         *)
(* Machine integers are modelled at the bit level: a u32 bucket is the set *)
(* of its set bit positions (a subset of 0..31) and a u64 hash the set of  *)
(* its set bit positions (a subset of 0..63).  Bitwise OR is set union,    *)
(* AND is intersection, NOT is the complement within the width, a right    *)
(* shift moves every position down and drops those that fall off.          *)
(***************************************************************************)
EXTENDS Integers, FiniteSets, Sequences, TLC

VARIABLES
    sk,        \* slot -> the PCSA value held there, or NoSketch
    hist,      \* slot -> ghost record of what has flowed into the sketch
    last,      \* the last operation performed and its outcome
    shlMode,   \* what this build computes for a u32 shift by 32 or more
    count      \* the counter of a loop that offers a stream of hashes

vars == <<sk, hist, last, shlMode, count>>

----------------------------------------------------------------------------
(* Bounds of the model *)

\* the largest b handed to new() in the one-sketch specification
MaxArgB == 18

\* how many hashes of HashTable are offered
NumHashes == 4

\* how many distinct hashes a sketch accepts through offer_hashed
MaxOffers == 2

----------------------------------------------------------------------------
(* Program constants *)

\* buckets: Vec<u32>
BucketWidth == 32

\* hash: &u64
HashWidth == 64

\* match b { 4..16 => ... }: the range pattern is inclusive
MinB == 4

MaxB == 16

\* 16 + (self.m * 4)
RamOverhead == 16

BucketBytes == 4

----------------------------------------------------------------------------
(* Bit-level helpers *)

MinOf(S) == CHOOSE x \in S : \A y \in S : x <= y

RECURSIVE Pow2(_)
Pow2(n) == IF n = 0 THEN 1 ELSE 2 * Pow2(n - 1)

\* the value of a bit set that fits a machine word of at most 30 bits
RECURSIVE ToNat(_)
ToNat(bits) ==
    IF bits = {} THEN 0
    ELSE LET i == MinOf(bits) IN Pow2(i) + ToNat(bits \ {i})

\* u64::trailing_zeros / u32::trailing_zeros: the width for a zero word
trailing_zeros(bits, width) == IF bits = {} THEN width ELSE MinOf(bits)

\* hash >> n on a u64
Shr(bits, n) == {i - n : i \in {j \in bits : j >= n}}

\* !x on a u32
Not32(bits) == (0 .. (BucketWidth - 1)) \ bits

\* the outcomes a build gives for  1u32 << r  when r >= 32: the shift
\* instruction keeps the low five bits of the count ("masked"), or shifts
\* the bit out of the word ("zero")
ShlModes == {"masked", "zero"}

\* 1 << r, typed u32 by the bucket it is OR-ed into
Shl1(r, mode) ==
    IF r < BucketWidth THEN {r}
    ELSE IF mode = "masked" THEN {r % BucketWidth}
    ELSE {}

----------------------------------------------------------------------------
(* The sketch *)

NoSketch == [m |-> 0, b |-> 0, buckets |-> <<>>, indexMask |-> {}]

Slots == {"p1", "p2"}

\* a buggy mask that is one bit too wide: (1 << (b + 1)) - 1
IndexMaskWide(b) == 0 .. b

\* ((1u << b) - 1) as u64
IndexMask(b) == 0 .. (b - 1)

\* a buggy range check that takes the upper end of the pattern as excluded
newRangeWrong(b) == b >= MinB /\ b < MaxB

\* match b { 4..16 => ..., _ => fail!(..) }
newRange(b) == b >= MinB /\ b <= MaxB

\* PCSA::new: the sketch, or NoSketch when the task fails
new(b) ==
    IF newRange(b)
    THEN LET m == Pow2(b)
         IN [m |-> m, b |-> b,
             buckets |-> [i \in 0 .. (m - 1) |-> {}],
             indexMask |-> IndexMask(b)]
    ELSE NoSketch

\* the bucket index: (hash & self.indexMask) as u32
Index(self, hash) == ToNat(hash \cap self.indexMask)

\* the bit position: (hash >> self.b as uint).trailing_zeros()
Rho(self, hash) == trailing_zeros(Shr(hash, self.b), HashWidth)

\* a buggy update that toggles the bit (^= for |=)
offer_hashedXor(self, hash, mode) ==
    [self EXCEPT !.buckets[Index(self, hash)] =
                     (@ \ Shl1(Rho(self, hash), mode))
                         \cup (Shl1(Rho(self, hash), mode) \ @)]

\* a buggy update that stores the bit instead of OR-ing it in
offer_hashedAssign(self, hash, mode) ==
    [self EXCEPT !.buckets[Index(self, hash)] = Shl1(Rho(self, hash), mode)]

\* PCSA::offer_hashed
offer_hashed(self, hash, mode) ==
    [self EXCEPT !.buckets[Index(self, hash)] =
                     @ \cup Shl1(Rho(self, hash), mode)]

\* a buggy bucket merge that keeps only the bits both sketches hold
mergeBucketAnd(mine, theirs) == mine \cap theirs

\* a buggy bucket merge that overwrites the receiver's bucket (= for |=)
mergeBucketAssign(mine, theirs) == theirs

\* a buggy bucket merge that fills only the buckets that are still empty
mergeBucketIfEmpty(mine, theirs) == IF mine = {} THEN theirs ELSE mine

\* a buggy bucket merge that toggles the bits (^= for |=)
mergeBucketXor(mine, theirs) == (mine \ theirs) \cup (theirs \ mine)

\* *self.buckets.get_mut(counter) |= p2.buckets[counter]
mergeBucket(mine, theirs) == mine \cup theirs

\* the loop of PCSA::merge from `counter` on: indexing p2.buckets past its
\* end fails the task, leaving self as the loop has left it so far
RECURSIVE mergeLoop(_, _, _)
mergeLoop(self, p2, counter) ==
    IF ~(counter < self.m) THEN [self |-> self, ok |-> TRUE]
    ELSE IF counter \notin DOMAIN p2.buckets THEN [self |-> self, ok |-> FALSE]
    ELSE mergeLoop([self EXCEPT !.buckets[counter] =
                                    mergeBucket(@, p2.buckets[counter])],
                   p2, counter + 1)

\* PCSA::merge: the receiver afterwards, and whether the call returned
merge(self, p2) == mergeLoop(self, p2, 0)

\* a buggy merge that writes the merged buckets to both sketches
mergeIntoBoth(skf, s, t) ==
    [skf EXCEPT ![s] = merge(skf[s], skf[t]).self,
                ![t] = merge(skf[t], skf[s]).self]

\* p1.merge(&p2): self is &mut, p2 is a shared borrow
mergeInto(skf, s, t) == [skf EXCEPT ![s] = merge(skf[s], skf[t]).self]

\* a buggy size with the parentheses misplaced: (16 + m) * 4
ram_bytes_usedWrong(self) == (RamOverhead + self.m) * BucketBytes

\* PCSA::ram_bytes_used
ram_bytes_used(self) == RamOverhead + (self.m * BucketBytes)

----------------------------------------------------------------------------
(* The estimators.  An f64 is carried in fixed point, eight decimal digits *)
(* after the point (Unit * Unit units to one); products are formed from    *)
(* four-digit halves so that every intermediate fits a 32-bit integer.     *)
(* The fraction 2^((sum mod m) / m) carries eight digits, so an estimate   *)
(* carries six significant digits: for m <= 1024 and estimates below 10^6  *)
(* the truncated results are those of the f64 computation, digit for       *)
(* digit; larger estimates agree with it to one part in a million.  A      *)
(* value that one integer cannot hold is carried in two 16-bit halves.     *)

Unit == 10000

One == Unit * Unit

\* static phi: f64 = 0.77351f64, in units of 1/100000
phi == 77351

\* static kappa: f64 = 1.75f64, in quarters
kappa == 7

\* the loop of cardinality and smCardinality:
\* sum += (!(self.buckets[counter])).trailing_zeros()
RECURSIVE gapLoop(_, _, _)
gapLoop(self, counter, sum) ==
    IF ~(counter < self.m) THEN sum
    ELSE gapLoop(self, counter + 1,
                 sum + trailing_zeros(Not32(self.buckets[counter]), BucketWidth))

\* x * y of two fixed-point values below 2.1, rounded down
MulFix(x, y) ==
    LET xh == x \div Unit  xl == x % Unit
        yh == y \div Unit  yl == y % Unit
    IN (xh * yh) + (((xh * yl) + (xl * yh) + ((xl * yl) \div Unit)) \div Unit)

\* the square root of a fixed-point value in [1, 2], by bisection:
\* the largest r in lo..hi with r * r <= x
RECURSIVE SqrtFix(_, _, _)
SqrtFix(x, lo, hi) ==
    IF lo >= hi THEN lo
    ELSE LET mid == (lo + hi + 1) \div 2
         IN IF MulFix(mid, mid) <= x THEN SqrtFix(x, mid, hi)
            ELSE SqrtFix(x, lo, mid - 1)

\* 2^(1/2^k) in fixed point
RECURSIVE Root2(_)
Root2(k) == IF k = 0 THEN 2 * One ELSE SqrtFix(Root2(k - 1), One, 2 * One)

\* the roots the estimators use, computed once
RootTable == [k \in 0 .. (MaxB + 2) |-> Root2(k)]

\* 2^(num/2^k) in fixed point, for 0 <= num < 2^k
RECURSIVE Pow2Frac(_, _)
Pow2Frac(num, k) ==
    IF k = 0 THEN One
    ELSE LET rest == Pow2Frac(num \div 2, k - 1)
         IN IF num % 2 = 1 THEN MulFix(rest, RootTable[k]) ELSE rest

\* 1 / phi in fixed point
InvPhi == (((One * 10) \div phi) * Unit)
             + ((((One * 10) % phi) * Unit) \div phi)

\* a value too wide for one integer: hi * Half + lo, and the fraction
\* behind the point in fixed point
Half == 65536

\* twice a wide value
Double(w) ==
    LET f == 2 * w.frac
        l == (2 * w.lo) + (f \div One)
    IN [hi |-> (2 * w.hi) + (l \div Half), lo |-> l % Half, frac |-> f % One]

\* the fixed-point value y times 2^e, as a wide value
RECURSIVE Scaled(_, _)
Scaled(w, e) == IF e = 0 THEN w ELSE Scaled(Double(w), e - 1)

WideOf(y, e) == Scaled([hi |-> 0, lo |-> y \div One, frac |-> y % One], e)

\* v < w
WideLess(v, w) ==
    \/ v.hi < w.hi
    \/ v.hi = w.hi /\ v.lo < w.lo
    \/ v.hi = w.hi /\ v.lo = w.lo /\ v.frac < w.frac

\* v - w for v >= w
WideSub(v, w) ==
    LET bf == IF v.frac < w.frac THEN 1 ELSE 0
        bl == IF v.lo - bf < w.lo THEN 1 ELSE 0
    IN [hi |-> v.hi - w.hi - bl,
        lo |-> (v.lo - bf - w.lo) + (bl * Half),
        frac |-> (v.frac - w.frac) + (bf * One)]

\* a buggy estimate with the operands of the division swapped (phi / m)
rawEstimateSwapped(self, sum) ==
    WideOf((Pow2Frac(sum % self.m, self.b) \div 100000) * (phi \div self.m),
           sum \div self.m)

\* m / phi * 2f64.powf(sum as f64 / m): (1 / phi) * 2^((sum mod m) / m),
\* a value in [1.29, 2.59), times 2^(b + sum div m)
rawEstimate(self, sum) ==
    WideOf(MulFix(InvPhi, Pow2Frac(sum % self.m, self.b)),
           self.b + (sum \div self.m))

\* the least integer n with n * den >= num
CeilDiv(num, den) == (num + den - 1) \div den

\* 2f64.powf(-kappa * sum as f64 / m) in fixed point: a value in (0, 1]
correction(self, sum) ==
    LET den == 4 * self.m
        n == CeilDiv(kappa * sum, den)
    IN IF n > 30 THEN 0
       ELSE Pow2Frac(n * den - kappa * sum, self.b + 2) \div Pow2(n)

\* v - c as a signed value: the f64 that smCardinality converts
Diff(v, c) ==
    IF WideLess(v, c) THEN [neg |-> TRUE, mag |-> WideSub(c, v)]
    ELSE [neg |-> FALSE, mag |-> WideSub(v, c)]

\* (m / phi * 2^(sum/m)) - 2^(-kappa * sum / m), before the conversion
smValue(self, sum) ==
    Diff(rawEstimate(self, sum), WideOf(correction(self, sum), 0))

\* the formula of the comment above the return of smCardinality:
\* m / phi * (Math.pow(2, sum / m) - Math.pow(2, -kappa * sum / m))
commentValue(self, sum) ==
    Diff(rawEstimate(self, sum),
         WideOf(MulFix(InvPhi, correction(self, sum)), self.b))

\* a u32 as its two 16-bit halves
U32(hi, lo) == [hi |-> hi, lo |-> lo]

\* the f64 is in the range of a u32 once truncated
FitsU32(x) ==
    IF x.neg THEN x.mag.hi = 0 /\ x.mag.lo = 0 ELSE x.mag.hi < Half

\* x as u32.  In range, the value truncated towards zero.  Out of range the
\* conversion is undefined: the build whose shifts mask their count
\* converts through a 64-bit integer and keeps its low 32 bits, the build
\* whose shifts give zero saturates
castU32(x, mode) ==
    IF FitsU32(x) THEN (IF x.neg THEN U32(0, 0) ELSE U32(x.mag.hi, x.mag.lo))
    ELSE IF mode = "masked"
    THEN (IF x.neg
          THEN U32(((Half - (x.mag.hi % Half))
                        - (IF x.mag.lo = 0 THEN 0 ELSE 1)) % Half,
                   (Half - x.mag.lo) % Half)
          ELSE U32(x.mag.hi % Half, x.mag.lo))
    ELSE (IF x.neg THEN U32(0, 0) ELSE U32(Half - 1, Half - 1))

\* a buggy estimator whose sum is not reset between two calls
cardinalityStale(self, mode) ==
    castU32([neg |-> FALSE,
             mag |-> rawEstimate(self,
                 gapLoop(self, 0, IF last.op = "cardinality" THEN 1 ELSE 0))],
            mode)

\* PCSA::cardinality: (m / phi * 2f64.powf(sum as f64 / m)) as u32
cardinality(self, mode) ==
    castU32([neg |-> FALSE, mag |-> rawEstimate(self, gapLoop(self, 0, 0))],
            mode)

\* PCSA::smCardinality:
\* ((m / phi * 2f64.powf(sum as f64 / m)) - 2f64.powf(-kappa * sum as f64 / m)) as u32
smCardinality(self, mode) ==
    castU32(smValue(self, gapLoop(self, 0, 0)), mode)

----------------------------------------------------------------------------
(* The inputs *)

\* the 64-bit hashes offered, as the sets of their set bits:
\*   1: 0                       index 0, no bit above the index
\*   2: 2^5                     b=4: index 0, r 1;   b=5: index 0, r 0
\*   3: 31                      b=4: index 15, r 0;  b=5: index 31, no bit above
\*   4: 2^36                    b=4: index 0, r 32;  b=5: index 0, r 31
\*   5: 2^9 + 2^6 + 1           b=4: index 1, r 2;   b=5: index 1, r 1
\*   6: 2^6 + 1                 the same bucket and bit as 5
\*   7: 2^63 + 2^4              b=4: index 0, r 0;   b=5: index 16, r 58
HashTable ==
    << {}, {5}, {0, 1, 2, 3, 4}, {36}, {0, 6, 9}, {0, 6}, {4, 63} >>

HashIds == 1 .. NumHashes

\* the arguments of new() in the two-sketch specification: one below the
\* accepted range and the two smallest accepted ones
SmallArgs == (MinB - 1) .. (MinB + 1)

\* the arguments of new() in the one-sketch specification
AllArgs == 0 .. MaxArgB

\* the u64 whose value is i, for 0 <= i < 2^b
IndexBits(i, b) == {k \in 0 .. (b - 1) : (i \div Pow2(k)) % 2 = 1}

\* the hash the loop offers when its counter is n: the hashes of the stream
\* reach every bucket in turn, first with r = 0, then with r = 1, and so on
StreamHash(self, n) == IndexBits(n % self.m, self.b) \cup {self.b + (n \div self.m)}

\* the name of that hash in the ghost history
StreamId(n) == Len(HashTable) + 1 + n

\* the ghost history of a sketch: the hashes that have reached it, by
\* offer_hashed or through merges of sketches of its own b, and whether
\* buckets of a sketch of another b have been merged into it
NoHist == [offered |-> {}, mixed |-> FALSE]

NoOp == [op |-> "init", recv |-> "", other |-> "", b |-> 0, hash |-> 0,
         ok |-> TRUE, again |-> FALSE, result |-> 0]

----------------------------------------------------------------------------
(* The operations *)

Init ==
    /\ sk = [s \in Slots |-> NoSketch]
    /\ hist = [s \in Slots |-> NoHist]
    /\ last = NoOp
    /\ shlMode \in ShlModes
    /\ count = 0

\* let mut p = PCSA::new(b): the slot is filled unless the task fails
New(s, b) ==
    /\ sk[s] = NoSketch
    /\ sk' = [sk EXCEPT ![s] = new(b)]
    /\ last' = [NoOp EXCEPT !.op = "new", !.recv = s, !.b = b,
                            !.ok = (new(b) # NoSketch)]
    /\ UNCHANGED <<hist, shlMode, count>>

\* p.offer_hashed(&hash)
Offer(s, k) ==
    /\ sk[s] # NoSketch
    /\ k \in hist[s].offered \/ Cardinality(hist[s].offered) < MaxOffers
    /\ sk' = [sk EXCEPT ![s] = offer_hashed(@, HashTable[k], shlMode)]
    /\ hist' = [hist EXCEPT ![s].offered = @ \cup {k}]
    /\ last' = [NoOp EXCEPT !.op = "offer", !.recv = s, !.hash = k,
                            !.again = (k \in hist[s].offered)]
    /\ UNCHANGED <<shlMode, count>>

\* while count < iterations { p.offer_hashed(&hash(count)); count += 1 }:
\* one turn of the loop, which ends when the stream is exhausted
OfferNext(s) ==
    /\ sk[s] # NoSketch
    /\ count < BucketWidth * sk[s].m
    /\ sk' = [sk EXCEPT ![s] = offer_hashed(@, StreamHash(@, count), shlMode)]
    /\ hist' = [hist EXCEPT ![s].offered = @ \cup {StreamId(count)}]
    /\ last' = [NoOp EXCEPT !.op = "offer", !.recv = s, !.hash = StreamId(count)]
    /\ count' = count + 1
    /\ UNCHANGED shlMode

\* s.merge(&t): the borrow rules keep s and t apart
Merge(s, t) ==
    /\ s # t
    /\ sk[s] # NoSketch
    /\ sk[t] # NoSketch
    /\ sk' = mergeInto(sk, s, t)
    /\ hist' = [hist EXCEPT ![s] =
                   IF sk[s].b = sk[t].b
                   THEN [offered |-> @.offered \cup hist[t].offered,
                         mixed |-> @.mixed \/ hist[t].mixed]
                   ELSE [@ EXCEPT !.mixed = TRUE]]
    /\ last' = [NoOp EXCEPT !.op = "merge", !.recv = s, !.other = t,
                            !.ok = merge(sk[s], sk[t]).ok]
    /\ UNCHANGED <<shlMode, count>>

\* what a read of sketch s leaves in `last`
ReadOp(s, op, value) ==
    [NoOp EXCEPT !.op = op, !.recv = s, !.result = value,
                 !.again = (last.op = op /\ last.recv = s)]

\* p.cardinality()
CardinalityOf(s) ==
    /\ sk[s] # NoSketch
    /\ last' = ReadOp(s, "cardinality", cardinality(sk[s], shlMode))
    /\ UNCHANGED <<sk, hist, shlMode, count>>

\* p.smCardinality()
SmCardinalityOf(s) ==
    /\ sk[s] # NoSketch
    /\ last' = ReadOp(s, "smCardinality", smCardinality(sk[s], shlMode))
    /\ UNCHANGED <<sk, hist, shlMode, count>>

\* p.ram_bytes_used()
RamBytesUsedOf(s) ==
    /\ sk[s] # NoSketch
    /\ last' = ReadOp(s, "ram_bytes_used", ram_bytes_used(sk[s]))
    /\ UNCHANGED <<sk, hist, shlMode, count>>

\* two sketches of small b: construction, updates and merges in any order
Next ==
    \E s \in Slots :
        \/ \E b \in SmallArgs : New(s, b)
        \/ \E k \in HashIds : Offer(s, k)
        \/ \E t \in Slots : Merge(s, t)

Spec == Init /\ [][Next]_vars

\* two sketches of small b, p1 the one that is merged into and read
NextRead ==
    \/ \E s \in Slots, b \in SmallArgs : New(s, b)
    \/ \E s \in Slots, k \in HashIds : Offer(s, k)
    \/ Merge("p1", "p2")
    \/ CardinalityOf("p1")
    \/ SmCardinalityOf("p1")

SpecRead == Init /\ [][NextRead]_vars

\* one sketch, constructed with any argument
NextAllB ==
    \/ \E b \in AllArgs : New("p1", b)
    \/ \E k \in HashIds : Offer("p1", k)
    \/ RamBytesUsedOf("p1")

SpecAllB == Init /\ [][NextAllB]_vars

\* one sketch of small b that a loop fills with a stream of hashes, read
\* at any turn of the loop
NextFill ==
    \/ \E b \in SmallArgs : New("p1", b)
    \/ OfferNext("p1")
    \/ CardinalityOf("p1")
    \/ SmCardinalityOf("p1")

SpecFill == Init /\ [][NextFill]_vars

\* three sketches of the smallest b, p1 the one that is merged into
Slots3 == {"p1", "p2", "p3"}

Init3 ==
    /\ sk = [s \in Slots3 |-> NoSketch]
    /\ hist = [s \in Slots3 |-> NoHist]
    /\ last = NoOp
    /\ shlMode \in ShlModes
    /\ count = 0

\* the number of hashes the three histories hold
Offered3 ==
    Cardinality(hist["p1"].offered) + Cardinality(hist["p2"].offered)
        + Cardinality(hist["p3"].offered)

Next3 ==
    \/ \E s \in Slots3 : New(s, MinB)
    \/ \E s \in Slots3, k \in HashIds : Offered3 <= MaxOffers /\ Offer(s, k)
    \/ \E t \in Slots3 : Merge("p1", t)

Spec3 == Init3 /\ [][Next3]_vars

----------------------------------------------------------------------------
(* Helpers of the properties *)

\* every order in which the hashes of the set S can be offered
RECURSIVE Orders(_)
Orders(S) ==
    IF S = {} THEN {<< >>}
    ELSE UNION {{<<k>> \o o : o \in Orders(S \ {k})} : k \in S}

\* the sketch after offer_hashed of the hashes of `order`, first to last
RECURSIVE OfferAll(_, _, _)
OfferAll(self, order, mode) ==
    IF order = << >> THEN self
    ELSE OfferAll(offer_hashed(self, HashTable[Head(order)], mode),
                  Tail(order), mode)

\* the slots that hold a sketch
Live == {s \in Slots : sk[s] # NoSketch}

\* the slots that hold a sketch in a run of three
Live3 == {s \in Slots3 : sk[s] # NoSketch}

\* the bits a u32 can hold of the single bit r
BitOfU32(r) == {r} \cap (0 .. (BucketWidth - 1))

----------------------------------------------------------------------------
(* The properties *)

\* C1: after A.merge(B) of two sketches of the same b, the buckets of A are
\* those of a fresh sketch of that b to which the union of the hashes of A
\* and of B is offered, in whatever order.
MergeIsUnion ==
    (last.op = "merge" /\ ~hist[last.recv].mixed) =>
        \A order \in Orders(hist[last.recv].offered) :
            OfferAll(new(sk[last.recv].b), order, shlMode).buckets
                = sk[last.recv].buckets

\* C1 happens: a merge of two sketches of one b, each holding a bit the
\* other lacked
MergeIsUnionWitness ==
    /\ last.op = "merge"
    /\ last.ok
    /\ ~hist[last.recv].mixed
    /\ sk[last.recv].b = sk[last.other].b
    /\ sk[last.recv].buckets # sk[last.other].buckets
    /\ \E i \in DOMAIN sk[last.other].buckets : sk[last.other].buckets[i] # {}
    /\ Cardinality(hist[last.recv].offered) > MaxOffers

\* C2: a merge of two sketches whose b differ fails.
MismatchedMergeFails ==
    (last.op = "merge" /\ sk[last.recv].b # sk[last.other].b) => ~last.ok

\* C3: a merge of two sketches whose b differ changes no bucket of either.
MismatchedMergeChangesNothing ==
    [][(last'.op = "merge" /\ sk[last'.recv].b # sk[last'.other].b)
           => sk' = sk]_vars

\* C4: new(b) succeeds exactly for b in 4..16 and then yields 2^b buckets;
\* otherwise no sketch is produced.
NewAcceptsFourToSixteen ==
    last.op = "new" =>
        /\ last.ok <=> (last.b >= 4 /\ last.b <= 16)
        /\ last.ok =>
              /\ sk[last.recv].m = Pow2(last.b)
              /\ DOMAIN sk[last.recv].buckets = 0 .. (Pow2(last.b) - 1)
        /\ ~last.ok => sk[last.recv] = NoSketch

\* C4 happens: the largest accepted b has been constructed
NewAcceptsFourToSixteenWitness ==
    /\ last.op = "new"
    /\ last.b = 16
    /\ last.ok
    /\ sk[last.recv].m = 65536

\* C5: whatever the order in which a set of hashes is offered to a fresh
\* sketch, the buckets are the same: those the sketch holds.
OrderIndependent ==
    \A s \in Live :
        ~hist[s].mixed =>
            \A order \in Orders(hist[s].offered) :
                OfferAll(new(sk[s].b), order, shlMode).buckets = sk[s].buckets

\* C5 happens: a sketch that has only ever been offered hashes (no other
\* sketch exists to merge) holds several of them, in more than one bucket
OrderIndependentWitness ==
    /\ last.op = "offer"
    /\ \A t \in Slots \ {last.recv} : sk[t] = NoSketch
    /\ Cardinality(hist[last.recv].offered) >= 2
    /\ Cardinality({i \in DOMAIN sk[last.recv].buckets :
                       sk[last.recv].buckets[i] # {}}) >= 2

\* C6: offering again a hash that has already reached the sketch changes
\* no bucket.
ReofferChangesNothing ==
    [][(last'.op = "offer" /\ last'.again) => sk' = sk]_vars

\* C6 happens: a hash has been offered a second time to a sketch that
\* holds other bits too
ReofferChangesNothingWitness ==
    /\ last.op = "offer"
    /\ last.again
    /\ Cardinality(hist[last.recv].offered) >= 2
    /\ \E i \in DOMAIN sk[last.recv].buckets :
           Cardinality(sk[last.recv].buckets[i]) >= 2

\* C7: offer_hashed(hash) ORs the single bit r = trailing zeros of
\* (hash >> b) into buckets[hash & indexMask] and changes nothing else.
OfferSetsBitRho ==
    [][last'.op = "offer" =>
          LET s == last'.recv
              hash == HashTable[last'.hash]
          IN sk' = [sk EXCEPT ![s].buckets[Index(sk[s], hash)] =
                                  @ \cup BitOfU32(Rho(sk[s], hash))]]_vars

\* C8: a bit that is set in a bucket of a sketch stays set.
BitsNeverCleared ==
    [][\A s \in Live :
          /\ sk'[s] # NoSketch
          /\ \A i \in DOMAIN sk[s].buckets :
                 sk[s].buckets[i] \subseteq sk'[s].buckets[i]]_vars

\* C8 happens: a sketch that held bits has been merged into and holds more
BitsNeverClearedWitness ==
    /\ last.op = "merge"
    /\ \E i \in DOMAIN sk[last.recv].buckets :
           /\ i \in DOMAIN sk[last.other].buckets
           /\ sk[last.other].buckets[i] # {}
           /\ sk[last.recv].buckets[i] # sk[last.other].buckets[i]

\* C9: A.merge(B) leaves B as it was.
MergeLeavesArgument ==
    [][last'.op = "merge" => sk'[last'.other] = sk[last'.other]]_vars

\* C9 happens: a merge has brought bits of the argument into a receiver
\* that still differs from it
MergeLeavesArgumentWitness ==
    /\ last.op = "merge"
    /\ last.ok
    /\ \E i \in DOMAIN sk[last.other].buckets : sk[last.other].buckets[i] # {}
    /\ sk[last.recv] # sk[last.other]
    /\ hist[last.other].offered # hist[last.recv].offered

Saturated(self) ==
    \A i \in DOMAIN self.buckets : self.buckets[i] = 0 .. (BucketWidth - 1)

\* C12: cardinality() of a sketch whose buckets all have all 32 bits set
\* (sum = 32 * m) returns a defined value: (m / phi) * 2^32 is in the range
\* of the u32 it is converted to, and the value returned is its integer
\* part.
SaturatedEstimateDefined ==
    (last.op = "cardinality" /\ Saturated(sk[last.recv])) =>
        LET self == sk[last.recv]
            v == rawEstimate(self, BucketWidth * self.m)
        IN /\ FitsU32([neg |-> FALSE, mag |-> v])
           /\ last.result = U32(v.hi, v.lo)

\* C13: ram_bytes_used() returns exactly 16 + 4 * m, whatever the buckets
\* hold: 80 bytes for b = 4, up to 262160 bytes for b = 16, a value that
\* a u32 holds.
RamBytesExact ==
    last.op = "ram_bytes_used" =>
        LET self == sk[last.recv]
        IN /\ last.result = 16 + (4 * self.m)
           /\ self.b = 4 => last.result = 80
           /\ self.b = 15 => last.result = 131088
           /\ self.b = 16 => last.result = 262160
           /\ last.result >= 0
           /\ last.result \div Half < Half

RamBytesExactWitness ==
    /\ last.op = "ram_bytes_used"
    /\ sk[last.recv].b = 10
    /\ hist[last.recv].offered # {}
    /\ last.result = 4112

\* C14: the configuration of a sketch never changes.  Through every
\* operation b stays the value the sketch was constructed with, m is 2^b,
\* indexMask is 2^b - 1 and the bucket array has exactly m entries.
ConfigurationIsFixed ==
    [][\A s \in Slots :
          sk'[s] # NoSketch =>
              /\ sk'[s].m = Pow2(sk'[s].b)
              /\ ToNat(sk'[s].indexMask) = Pow2(sk'[s].b) - 1
              /\ DOMAIN sk'[s].buckets = 0 .. (sk'[s].m - 1)
              /\ sk[s] # NoSketch => sk'[s].b = sk[s].b
              /\ sk[s] = NoSketch =>
                     last'.op = "new" /\ last'.recv = s /\ sk'[s].b = last'.b
      ]_vars

ConfigurationIsFixedWitness ==
    /\ last.op = "smCardinality"
    /\ sk["p1"].b = 5
    /\ sk["p1"].m = 32
    /\ sk["p1"].indexMask = 0 .. 4
    /\ ~hist["p1"].mixed
    /\ hist["p2"].offered # {}
    /\ hist["p2"].offered \subseteq hist["p1"].offered
    /\ Cardinality(hist["p1"].offered) = MaxOffers

\* C15: the shift count of offer_hashed is below the bucket width.  For
\* every hash, r = (hash >> b).trailing_zeros() is smaller than 32, and the
\* bit the call sets in the hash's bucket is bit r.
ShiftCountBelowWidth ==
    last.op = "offer" =>
        LET self == sk[last.recv]
            hash == HashTable[last.hash]
        IN /\ Rho(self, hash) < BucketWidth
           /\ Rho(self, hash) \in self.buckets[Index(self, hash)]

\* the position of the lowest unset bit of a bucket: 0 for an empty
\* bucket, 32 for a bucket with every bit set
FirstGap(bucket) ==
    IF bucket = 0 .. (BucketWidth - 1) THEN BucketWidth
    ELSE MinOf((0 .. (BucketWidth - 1)) \ bucket)

\* the sum of the first gaps of the buckets 0 .. n - 1
RECURSIVE FirstGapSum(_, _)
FirstGapSum(self, n) ==
    IF n = 0 THEN 0
    ELSE FirstGap(self.buckets[n - 1]) + FirstGapSum(self, n - 1)

\* C16: cardinality() returns (m / phi) * 2^(sum / m) truncated to an
\* unsigned integer, where sum is the sum over all buckets of the position
\* of the lowest unset bit, 0 <= sum <= 32 * m; a fresh sketch yields
\* trunc(m / phi).
CardinalityIsTheFormula ==
    last.op = "cardinality" =>
        LET self == sk[last.recv]
            sum == FirstGapSum(self, self.m)
            v == rawEstimate(self, sum)
        IN /\ 0 <= sum /\ sum <= 32 * self.m
           /\ last.result = U32(v.hi, v.lo)
           /\ sum = 0 => last.result = U32(0, (self.m * 100000) \div 77351)

\* C17: smCardinality() returns the value of the formula in its own
\* comment, m / phi * (2^(sum/m) - 2^(-kappa * sum / m)) truncated, in which
\* m / phi multiplies the whole difference; a fresh sketch yields 0.
SmCardinalityIsItsComment ==
    last.op = "smCardinality" =>
        LET self == sk[last.recv]
            sum == FirstGapSum(self, self.m)
        IN /\ last.result = castU32(commentValue(self, sum), shlMode)
           /\ sum = 0 => last.result = U32(0, 0)

\* C18, as the claim states it: on a fresh sketch, the state of the
\* smallest sum, the value (m / phi) * 2^(sum/m) - 2^(-kappa * sum / m)
\* that smCardinality() converts is negative.
SmallCorrectedIsNegative ==
    (last.op = "smCardinality" /\ FirstGapSum(sk[last.recv], sk[last.recv].m) = 0)
        => smValue(sk[last.recv], 0).neg

\* C18, amended: in every state the value that smCardinality() converts is
\* positive, at least m / phi - 1, because the term subtracted is at most
\* 1; no negative value is truncated.
SmallCorrectedNeverNegative ==
    last.op = "smCardinality" =>
        LET self == sk[last.recv]
            x == smValue(self, FirstGapSum(self, self.m))
        IN /\ ~x.neg
           /\ x.mag.hi > 0 \/ x.mag.lo >= ((self.m * 100000) \div 77351) - 1

SmallCorrectedNeverNegativeWitness ==
    /\ last.op = "smCardinality"
    /\ hist[last.recv].offered = {}
    /\ sk[last.recv].b = 4
    /\ last.result = U32(0, 19)

\* C19: the sum that cardinality() is computed from never decreases.
\* Across every offer_hashed and every merge of two sketches of the same b,
\* the sum of the first-gap positions of each sketch is at least what it
\* was.
SumNeverDecreases ==
    [][(\/ last'.op = "offer"
        \/ last'.op = "merge" /\ sk[last'.recv].b = sk[last'.other].b) =>
          \A s \in Live3 :
              \/ sk'[s] = sk[s]
              \/ gapLoop(sk'[s], 0, 0) >= gapLoop(sk[s], 0, 0)
      ]_vars

SumNeverDecreasesWitness ==
    /\ last.op = "merge"
    /\ last.ok
    /\ sk[last.recv].b = sk[last.other].b
    /\ ~hist[last.recv].mixed
    /\ gapLoop(sk[last.recv], 0, 0) >= 2
    /\ gapLoop(sk[last.recv], 0, 0) > gapLoop(sk[last.other], 0, 0)
    /\ gapLoop(sk[last.other], 0, 0) > 0

\* the buckets of sketch `first` after first.merge(second); first.merge(third)
MergedInOrder(first, second, third) ==
    merge(merge(first, second).self, third).self.buckets

\* C20: merging is independent of order.  For three sketches A, B, C of the
\* same b, A.merge(B); A.merge(C) leaves in A the buckets that
\* C.merge(B); C.merge(A) leaves in C.
MergeOrderIndependent ==
    \A a, b, c \in Live3 :
        (a # b /\ b # c /\ a # c /\ sk[a].b = sk[b].b /\ sk[b].b = sk[c].b) =>
            MergedInOrder(sk[a], sk[b], sk[c]) = MergedInOrder(sk[c], sk[b], sk[a])

MergeOrderIndependentWitness ==
    /\ Live3 = Slots3
    /\ last.op = "merge"
    /\ last.ok
    /\ hist["p2"].offered # {}
    /\ hist["p3"].offered # {}
    /\ ~(hist["p3"].offered \subseteq hist["p2"].offered)
    /\ ~(hist["p2"].offered \subseteq hist["p3"].offered)
    /\ hist["p1"].offered = hist["p2"].offered \cup hist["p3"].offered
    /\ sk["p1"].buckets = MergedInOrder(sk["p3"], sk["p2"], sk["p1"])
    /\ sk["p1"].buckets # sk["p2"].buckets
    /\ sk["p1"].buckets # sk["p3"].buckets

====
